---- MODULE Spec2Model ----
(***************************************************************************)
(* The extraction pipeline of ios-dimensions (scripts/generate.ts): a      *)
(* Listr task list that verifies the host, discovers the simulator         *)
(* devices, measures every device (xcodebuild, xcparse, fold of the        *)
(* attachments, removal of the derived data), sorts the records by hash    *)
(* and writes dimensions.json and logs.json.                               *)
(***************************************************************************)
EXTENDS Integers, Sequences, FiniteSets, TLC

\* Bounds of the model.
MaxDevices == 2
MaxAttachments == 2

VARIABLES
  pc,           \* the task the runner is at, or the run's outcome
  host,         \* what the host provides (isMacOS, withApp, withCommand)
  devices,      \* context.devices
  platform,     \* context.platform
  dimensions,   \* context.dimensions
  cur,          \* index in context.devices of the device being measured
  derivedData,  \* the directory DERIVED_DATA
  dimFile,      \* the file DIMENSIONS
  logFile,      \* the file LOGS
  error,        \* the error the run was rejected with
  exitStatus,   \* the exit status of the process, <<>> while it runs
  reported,     \* whether console.error was called
  commands,     \* the external commands invoked so far
  log,          \* the tasks started so far, <<title, device index>>
  produced,     \* the record folded for each device parsed so far
  output,       \* the bundle last handed to xcparse, by the device index
                \* whose build produced it; <<>> when none was
  files,        \* the attachment files of the device, where they are
                \* given before they are read (FoldSpec)
  checked       \* the requirements the requirement check has inspected

vars == <<pc, host, devices, platform, dimensions, cur, derivedData, dimFile,
          logFile, error, exitStatus, reported, commands, log, produced,
          output, files, checked>>

----------------------------------------------------------------------------
\* Values

\* JavaScript's undefined is <<>>, a defined value v is <<v>>.
Undefined == <<>>
Some(v) == <<v>>
IsDefined(o) == o # Undefined

\* An OrientedDimensions payload is the parsed object: its keys in the order
\* of the file, each with its value.
ScreenA == << <<"width", 1>>, <<"height", 2>> >>
ScreenAReordered == << <<"height", 2>>, <<"width", 1>> >>
ScreenB == << <<"width", 2>>, <<"height", 1>> >>
Payloads == {ScreenA, ScreenAReordered, ScreenB}

Orientations == {"portrait", "landscape"}
DeviceClasses == {"iPhone"}
Scales == {3}
Radii == {0, 6}

\* ExtractedDimensions: what getJSON yields for one attachment file.
ExtractedDimensions ==
  [orientation : Orientations, device : DeviceClasses, scale : Scales,
   radius : Radii, payload : Payloads]

\* The attachment files globby enumerates, in enumeration order.
AttachmentLists ==
  UNION {[1..n -> ExtractedDimensions] : n \in 0..MaxAttachments}

\* Attachment files as any producer may write them: the orientation is a
\* string of the file, one of the two the fold names or another one.
GivenOrientations == Orientations \cup {"faceUp"}
GivenAttachmentLists ==
  UNION {[1..n -> [orientation : GivenOrientations, device : DeviceClasses,
                   scale : Scales, radius : Radii, payload : Payloads]] :
         n \in 0..MaxAttachments}

\* The requirements of the host.
Hosts == [macOS : BOOLEAN, xcodeApp : BOOLEAN, xcodebuild : BOOLEAN,
          xcparse : BOOLEAN]

NoError == [kind |-> "none", stage |-> "", device |-> 0, message |-> ""]

\* An artifact: whether this run wrote it, how often, and what it holds
\* (the previous run's content is not looked at and is left abstract).
Previous == [writes |-> 0, data |-> <<>>]

\* DERIVED_DATA: whether the directory exists, the *.xcresult bundles under
\* Logs/Test and the *.txt files in it. A bundle or file is named by the
\* device index whose build produced it, 0 for one left by an earlier run.
Absent == [exists |-> FALSE, bundles |-> <<>>, txt |-> <<>>]

----------------------------------------------------------------------------
\* Pure functions

\* The variables declared before the loop (let device!: Device, ...).
Unassigned ==
  [device |-> Undefined, scale |-> Undefined, radius |-> Undefined,
   portrait |-> Undefined, landscape |-> Undefined]

\* A variant that starts from unassigned slots at every iteration.
FoldStepForgetful(acc, a) ==
  [device |-> Some(a.device),
   scale |-> Some(a.scale),
   radius |-> Some(a.radius),
   portrait |-> IF a.orientation = "portrait" THEN Some(a.payload)
                ELSE Undefined,
   landscape |-> IF a.orientation = "portrait" THEN Undefined
                 ELSE Some(a.payload)]

\* One iteration of the loop over the attachments.
FoldStep(acc, a) ==
  [device |-> Some(a.device),
   scale |-> Some(a.scale),
   radius |-> Some(a.radius),
   portrait |-> IF a.orientation = "portrait" THEN Some(a.payload)
                ELSE acc.portrait,
   landscape |-> IF a.orientation = "portrait" THEN acc.landscape
                 ELSE Some(a.payload)]

RECURSIVE FoldAttachments(_)
\* The Dimensions record built from the attachments, read in order.
FoldAttachments(attachments) ==
  IF attachments = <<>> THEN Unassigned
  ELSE FoldStep(FoldAttachments(SubSeq(attachments, 1, Len(attachments) - 1)),
                attachments[Len(attachments)])

\* JSON.stringify of a Dimensions record: the keys whose value is defined,
\* each with its value; a payload is written with its keys in their order.
\* (The keys of the record itself are always written in the one order of
\* the object literal, so the text is determined by this function.)
DimensionsKeys == {"device", "landscape", "portrait", "radius", "scale"}
Stringify(d) ==
  [k \in {key \in DimensionsKeys : IsDefined(d[key])} |-> d[k][1]]

\* A variant that looks for the object itself, which is never in the array.
IsUniqueByIdentity(all, d) == TRUE

\* A variant that compares the records without their radius.
IsUniqueIgnoringRadius(all, d) ==
  ~ \E i \in 1..Len(all) :
      Stringify([all[i] EXCEPT !.radius = Undefined])
        = Stringify([d EXCEPT !.radius = Undefined])

\* const isUniqueDimensions = !context.dimensions.map(stringify).includes(...)
IsUniqueDimensions(all, d) ==
  ~ \E i \in 1..Len(all) : Stringify(all[i]) = Stringify(d)

\* A variant that adds the record at the front (unshift).
PushUniqueFront(all, d) ==
  IF IsUniqueDimensions(all, d) THEN <<d>> \o all ELSE all

\* A variant that assigns a new array instead of pushing.
PushUniqueReplacing(all, d) ==
  IF IsUniqueDimensions(all, d) THEN <<d>> ELSE all

\* if (isUniqueDimensions) context.dimensions.push(dimensions)
PushUnique(all, d) ==
  IF IsUniqueDimensions(all, d) THEN Append(all, d) ELSE all

RECURSIVE SumValues(_)
SumValues(payload) ==
  IF payload = <<>> THEN 0
  ELSE payload[1][2] + SumValues(Tail(payload))

DeviceCode(name) == IF name = "iPhone" THEN 1 ELSE 2

\* getHashCode: an integer derived from the content of the record, the same
\* for records of the same content whatever the order of their keys.
getHashCode(d) ==
  (IF IsDefined(d.device) THEN DeviceCode(d.device[1]) ELSE 0)
  + (IF IsDefined(d.scale) THEN d.scale[1] ELSE 0)
  + (IF IsDefined(d.radius) THEN d.radius[1] ELSE 0)
  + (IF IsDefined(d.portrait) THEN SumValues(d.portrait[1]) ELSE 0)
  + (IF IsDefined(d.landscape) THEN SumValues(d.landscape[1]) ELSE 0)

\* A variant with the operands exchanged.
CompareDimensionsReversed(a, b) == getHashCode(b) - getHashCode(a)

\* The comparator handed to Array.prototype.sort.
CompareDimensions(a, b) == getHashCode(a) - getHashCode(b)

RECURSIVE InsertSorted(_, _)
\* x placed after every element that does not compare greater than it.
InsertSorted(sorted, x) ==
  IF sorted = <<>> THEN <<x>>
  ELSE IF CompareDimensions(sorted[1], x) <= 0
       THEN <<sorted[1]>> \o InsertSorted(Tail(sorted), x)
       ELSE <<x>> \o sorted

RECURSIVE SortDimensions(_)
\* Array.prototype.sort with the comparator: a stable sort (ECMAScript 2019).
SortDimensions(all) ==
  IF all = <<>> THEN <<>>
  ELSE InsertSorted(SortDimensions(SubSeq(all, 1, Len(all) - 1)),
                    all[Len(all)])

----------------------------------------------------------------------------
\* The task runner

\* A variant with exitOnError: false, where the list goes on after a throw.
ExitOnErrorOff == FALSE

\* Listr's exitOnError option, left at its default by every new Listr(...):
\* the first task that throws ends the list and rejects run().
ExitOnError == TRUE

\* A variant that leaves out the last check.
FirstUnmetWithoutXcparse(h) ==
  IF ~h.macOS THEN "Xcode is only available on macOS."
  ELSE IF ~h.xcodeApp THEN "Xcode is required."
  ELSE IF ~h.xcodebuild THEN "Xcode Command Line Tools are required."
  ELSE ""

\* A variant that looks for the commands before the host and the app.
FirstUnmetCommandsFirst(h) ==
  IF ~h.xcodebuild THEN "Xcode Command Line Tools are required."
  ELSE IF ~h.xcparse THEN "xcparse is required."
  ELSE IF ~h.macOS THEN "Xcode is only available on macOS."
  ELSE IF ~h.xcodeApp THEN "Xcode is required."
  ELSE ""

\* The first unmet requirement's diagnostic, "" when all are met.
FirstUnmet(h) ==
  IF ~h.macOS THEN "Xcode is only available on macOS."
  ELSE IF ~h.xcodeApp THEN "Xcode is required."
  ELSE IF ~h.xcodebuild THEN "Xcode Command Line Tools are required."
  ELSE IF ~h.xcparse THEN "xcparse is required."
  ELSE ""

\* The conditions of the if / else if chain, in its order.
RequirementOrder == <<"macOS", "xcodeApp", "xcodebuild", "xcparse">>

\* The conditions the chain evaluates: each one in order up to the first
\* that is unmet, whose branch throws.
ChecksMade(h) ==
  IF ~h.macOS THEN SubSeq(RequirementOrder, 1, 1)
  ELSE IF ~h.xcodeApp THEN SubSeq(RequirementOrder, 1, 2)
  ELSE IF ~h.xcodebuild THEN SubSeq(RequirementOrder, 1, 3)
  ELSE RequirementOrder

\* The exit status of the process once run() is settled: nothing sets
\* process.exitCode or calls process.exit.
ProcessExitCode == 0

\* isSilentError(error)
isSilentError(e) == e.kind = "silent"

\* A task throws: the run is rejected with the error (the first one, were
\* the list to go on), and with exitOnError no other task is started.
Throw(kind, message, next) ==
  /\ error' = IF error.kind = "none"
              THEN [kind |-> kind, stage |-> pc,
                    device |-> IF pc \in {"Extracting dimensions",
                                          "Parsing extracted dimensions",
                                          "Cleaning up extraction cache"}
                               THEN cur ELSE 0,
                    message |-> message]
              ELSE error
  /\ pc' = IF ExitOnError THEN "Rejected" ELSE next

\* A variant of the loop that never leaves the device tasks.
AfterDeviceUnbounded == "Extracting dimensions"

\* The task after the current device's sub-list.
AfterDevice ==
  IF cur < Len(devices) THEN "Extracting dimensions" ELSE "Sorting dimensions"

Started(title, device) == log' = Append(log, <<title, device>>)

InitialDerivedData ==
  {Absent,
   [exists |-> TRUE, bundles |-> <<0>>, txt |-> <<>>],
   [exists |-> TRUE, bundles |-> <<>>, txt |-> <<0>>]}

Init ==
  /\ pc = "Verifying requirements"
  /\ host \in Hosts
  /\ devices = <<>>
  /\ platform = ""
  /\ dimensions = <<>>
  /\ cur = 0
  /\ derivedData \in InitialDerivedData
  /\ dimFile = Previous
  /\ logFile = Previous
  /\ error = NoError
  /\ exitStatus = Undefined
  /\ reported = FALSE
  /\ commands = {}
  /\ log = <<>>
  /\ produced = <<>>
  /\ output = Undefined
  /\ files = <<>>
  /\ checked = <<>>

\* "Verifying requirements"
VerifyRequirements ==
  /\ pc = "Verifying requirements"
  /\ Started(pc, 0)
  /\ IF FirstUnmet(host) # ""
     THEN Throw("silent", FirstUnmet(host), "Gathering devices")
     ELSE pc' = "Gathering devices" /\ UNCHANGED error
  /\ checked' = ChecksMade(host)
  /\ UNCHANGED <<files, output,
                 host, devices, platform, dimensions, cur, derivedData,
                 dimFile, logFile, exitStatus, reported, commands, produced>>

\* "Gathering devices": getDevices() yields the devices and the platform,
\* or fails.
GatherDevices ==
  /\ pc = "Gathering devices"
  /\ Started(pc, 0)
  /\ \/ /\ \E n \in 0..MaxDevices : devices' = [i \in 1..n |-> i]
        /\ platform' = "current"
        /\ pc' = "Gathering dimensions"
        /\ UNCHANGED error
     \/ /\ Throw("error", "getDevices failed", "Gathering dimensions")
        /\ UNCHANGED <<devices, platform>>
  /\ UNCHANGED <<files, checked, output,
                 host, dimensions, cur, derivedData, dimFile, logFile,
                 exitStatus, reported, commands, produced>>

\* "Gathering dimensions": context.dimensions = [] and one sub-list per
\* device, run in the order of context.devices.
GatherDimensions ==
  /\ pc = "Gathering dimensions"
  /\ Started(pc, 0)
  /\ dimensions' = <<>>
  /\ produced' = <<>>
  /\ cur' = IF devices = <<>> THEN 0 ELSE 1
  /\ pc' = IF devices = <<>> THEN "Sorting dimensions"
           ELSE "Extracting dimensions"
  /\ UNCHANGED <<files, checked, output,
                 host, devices, platform, derivedData, dimFile, logFile,
                 error, exitStatus, reported, commands>>

\* "Extracting dimensions": xcodebuild build test -derivedDataPath
\* DERIVED_DATA for the device. It exits zero, having written a result bundle
\* or not, or it fails, having created the directory or not.
ExtractDimensions ==
  /\ pc = "Extracting dimensions"
  /\ Started(pc, cur)
  /\ commands' = commands \cup {"xcodebuild"}
  /\ \/ /\ \E emitted \in BOOLEAN :
             derivedData' =
               [derivedData EXCEPT !.exists = TRUE,
                  !.bundles = IF emitted THEN Append(@, cur) ELSE @]
        /\ pc' = "Parsing extracted dimensions"
        /\ UNCHANGED error
     \/ /\ \E created \in BOOLEAN :
             derivedData' =
               [derivedData EXCEPT !.exists = @ \/ created]
        /\ Throw("error", "xcodebuild failed", "Parsing extracted dimensions")
  /\ UNCHANGED <<files, checked, output,
                 host, devices, platform, dimensions, cur, dimFile, logFile,
                 exitStatus, reported, produced>>

\* The files that xcparse adds to DERIVED_DATA from the bundle of `owner`,
\* given the number of files enumerated afterwards.
Extracted(owner, total) ==
  [i \in 1..(total - Len(derivedData.txt)) |-> owner]

Reordered(records, p) == [i \in 1..Len(records) |-> records[p[i]]]

\* The rest of the task once xcparse has extracted the bundle listed at
\* `bundle`: the files, read in the order `read`, are folded and the record
\* is pushed unless its JSON text is already there.
ReadAttachments(bundle, read) ==
  /\ output' = Some(derivedData.bundles[bundle])
  /\ derivedData' =
       [derivedData EXCEPT
          !.txt = @ \o Extracted(derivedData.bundles[bundle], Len(read))]
  /\ dimensions' = PushUnique(dimensions, FoldAttachments(read))
  /\ produced' = Append(produced, FoldAttachments(read))
  /\ pc' = "Cleaning up extraction cache"
  /\ UNCHANGED error

\* "Parsing extracted dimensions": the first bundle globby lists (in no
\* specified order) is handed to xcparse, every *.txt file then in
\* DERIVED_DATA is read and folded, and the record is pushed.
ParseExtractedDimensions ==
  /\ pc = "Parsing extracted dimensions"
  /\ Started(pc, cur)
  /\ commands' = commands \cup {"xcparse"}
  /\ \/ \* no bundle is listed: output is undefined and xcparse fails
        /\ derivedData.bundles = <<>>
        /\ output' = Undefined
        /\ Throw("error", "xcparse failed", "Cleaning up extraction cache")
        /\ UNCHANGED <<derivedData, dimensions, produced>>
     \/ \* xcparse fails on the bundle
        /\ \E bundle \in 1..Len(derivedData.bundles) :
             output' = Some(derivedData.bundles[bundle])
        /\ Throw("error", "xcparse failed", "Cleaning up extraction cache")
        /\ UNCHANGED <<derivedData, dimensions, produced>>
     \/ \* getJSON fails on one of the files
        /\ \E bundle \in 1..Len(derivedData.bundles) :
           \E total \in Len(derivedData.txt)..MaxAttachments :
             /\ total > 0
             /\ output' = Some(derivedData.bundles[bundle])
             /\ derivedData' =
                  [derivedData EXCEPT
                     !.txt = @ \o Extracted(derivedData.bundles[bundle], total)]
        /\ Throw("error", "getJSON failed", "Cleaning up extraction cache")
        /\ UNCHANGED <<dimensions, produced>>
     \/ \* every file is read
        \E bundle \in 1..Len(derivedData.bundles) :
        \E read \in AttachmentLists :
          /\ Len(read) >= Len(derivedData.txt)
          /\ ReadAttachments(bundle, read)
  /\ UNCHANGED <<files, checked, host, devices, platform, cur, dimFile,
                 logFile, exitStatus, reported>>

\* "Cleaning up extraction cache": trash(DERIVED_DATA) removes the
\* directory, or fails.
CleanUp ==
  /\ pc = "Cleaning up extraction cache"
  /\ Started(pc, cur)
  /\ \/ /\ derivedData' = Absent
        /\ pc' = AfterDevice
        /\ UNCHANGED error
     \/ /\ Throw("error", "trash failed", AfterDevice)
        /\ UNCHANGED derivedData
  /\ cur' = IF pc' = "Extracting dimensions" THEN cur + 1 ELSE cur
  /\ UNCHANGED <<files, checked, output,
                 host, devices, platform, dimensions, dimFile, logFile,
                 exitStatus, reported, commands, produced>>

\* "Sorting dimensions"
SortTask ==
  /\ pc = "Sorting dimensions"
  /\ Started(pc, 0)
  /\ dimensions' = SortDimensions(dimensions)
  /\ pc' = "Generating files"
  /\ UNCHANGED <<files, checked, output,
                 host, devices, platform, cur, derivedData, dimFile, logFile,
                 error, exitStatus, reported, commands, produced>>

\* writeJSON(path, data) replaces the file.
Written(file, data) == [writes |-> file.writes + 1, data |-> data]

\* "Generating files": writeJSON(DIMENSIONS, ...) then writeJSON(LOGS, ...);
\* either call may fail, and the second is made only after the first
\* returned.
GenerateFiles ==
  /\ pc = "Generating files"
  /\ Started(pc, 0)
  /\ \/ /\ Throw("error", "writeJSON(DIMENSIONS) failed", "Finished")
        /\ UNCHANGED <<dimFile, logFile>>
     \/ /\ dimFile' = Written(dimFile, dimensions)
        /\ Throw("error", "writeJSON(LOGS) failed", "Finished")
        /\ UNCHANGED logFile
     \/ /\ dimFile' = Written(dimFile, dimensions)
        /\ logFile' = Written(logFile, <<platform>>)
        /\ pc' = "Finished"
        /\ UNCHANGED error
  /\ UNCHANGED <<files, checked, output,
                 host, devices, platform, dimensions, cur, derivedData,
                 exitStatus, reported, commands, produced>>

\* A variant of the handler without the early return on a SilentError.
RunSettledReportingAll ==
  /\ pc \in {"Finished", "Rejected"}
  /\ IF error.kind = "none"
     THEN pc' = "Done" /\ UNCHANGED reported
     ELSE pc' = "Aborted" /\ reported' = TRUE
  /\ exitStatus' = Some(ProcessExitCode)
  /\ UNCHANGED <<files, checked, output,
                 host, devices, platform, dimensions, cur, derivedData,
                 dimFile, logFile, error, commands, log, produced>>

\* tasks.run().catch(...): the handler reports the error unless it is a
\* SilentError; the process then ends.
RunSettled ==
  /\ pc \in {"Finished", "Rejected"}
  /\ IF error.kind = "none"
     THEN pc' = "Done" /\ UNCHANGED reported
     ELSE pc' = "Aborted" /\ reported' = ~isSilentError(error)
  /\ exitStatus' = Some(ProcessExitCode)
  /\ UNCHANGED <<files, checked, output,
                 host, devices, platform, dimensions, cur, derivedData,
                 dimFile, logFile, error, commands, log, produced>>

Next ==
  \/ VerifyRequirements
  \/ GatherDevices
  \/ GatherDimensions
  \/ ExtractDimensions
  \/ ParseExtractedDimensions
  \/ CleanUp
  \/ SortTask
  \/ GenerateFiles
  \/ RunSettled

Spec == Init /\ [][Next]_vars

\* The run when every external call returns or fails: Listr starts the next
\* task once the current one has settled, and the handler runs once run()
\* has settled, so a step that can be taken is taken.
LiveSpec == Spec /\ WF_vars(Next)

----------------------------------------------------------------------------
\* One device's parse step on attachment files given in advance

\* The run of a single device after its build has written its bundle into
\* an empty DERIVED_DATA, for every list of attachment files in the bundle.
FoldInit ==
  /\ pc = "Parsing extracted dimensions"
  /\ host = [macOS |-> TRUE, xcodeApp |-> TRUE, xcodebuild |-> TRUE,
             xcparse |-> TRUE]
  /\ devices = <<1>>
  /\ platform = "current"
  /\ dimensions = <<>>
  /\ cur = 1
  /\ derivedData = [exists |-> TRUE, bundles |-> <<1>>, txt |-> <<>>]
  /\ dimFile = Previous
  /\ logFile = Previous
  /\ error = NoError
  /\ exitStatus = Undefined
  /\ reported = FALSE
  /\ commands = {"xcodebuild"}
  /\ log = << <<"Verifying requirements", 0>>, <<"Gathering devices", 0>>,
              <<"Gathering dimensions", 0>>, <<"Extracting dimensions", 1>> >>
  /\ produced = <<>>
  /\ output = Undefined
  /\ files \in GivenAttachmentLists
  /\ checked = ChecksMade(host)

\* "Parsing extracted dimensions" when xcparse and getJSON succeed: globby
\* lists the given files in some order and they are read in that order.
ParseGiven ==
  /\ pc = "Parsing extracted dimensions"
  /\ Started(pc, cur)
  /\ commands' = commands \cup {"xcparse"}
  /\ \E bundle \in 1..Len(derivedData.bundles) :
     \E p \in Permutations(1..Len(files)) :
       ReadAttachments(bundle, Reordered(files, p))
  /\ UNCHANGED <<files, checked, host, devices, platform, cur, dimFile,
                 logFile, exitStatus, reported>>

FoldNext ==
  \/ ParseGiven
  \/ CleanUp
  \/ SortTask
  \/ GenerateFiles
  \/ RunSettled

FoldSpec == FoldInit /\ [][FoldNext]_vars

----------------------------------------------------------------------------
\* Properties

RECURSIVE Accumulate(_)
\* context.dimensions after the records were pushed in this order.
Accumulate(records) ==
  IF records = <<>> THEN <<>>
  ELSE PushUnique(Accumulate(SubSeq(records, 1, Len(records) - 1)),
                  records[Len(records)])

\* The dataset for devices yielding these records in this order.
Assemble(records) == SortDimensions(Accumulate(records))

DeviceSteps ==
  {"Extracting dimensions", "Parsing extracted dimensions",
   "Cleaning up extraction cache"}

Ended == pc \in {"Done", "Aborted"}

\* The same content, whatever the order of the keys.
SamePayload(p, q) ==
  /\ IsDefined(p) <=> IsDefined(q)
  /\ IsDefined(p) =>
       {p[1][i] : i \in 1..Len(p[1])} = {q[1][i] : i \in 1..Len(q[1])}

StructurallyEqual(a, b) ==
  /\ a.device = b.device
  /\ a.scale = b.scale
  /\ a.radius = b.radius
  /\ SamePayload(a.portrait, b.portrait)
  /\ SamePayload(a.landscape, b.landscape)

Complete(d) == IsDefined(d.portrait) /\ IsDefined(d.landscape)

\* C1: whatever the order in which the devices are processed, the records
\* they yield are assembled into the same dataset, the one this run wrote
\* (stated for devices that all yield both orientations).
C1_OrderIndependent ==
  (pc = "Done" /\ \A i \in 1..Len(produced) : Complete(produced[i])) =>
    \A p \in Permutations(1..Len(produced)) :
      Assemble(Reordered(produced, p)) = dimFile.data

C3_OnlyEqualRecordsMerged ==
  /\ \A i \in 1..Len(produced) :
       \E j \in 1..Len(dimensions) : dimensions[j] = produced[i]
  /\ dimFile.writes > 0 =>
       \A i \in 1..Len(produced) :
         \E j \in 1..Len(dimFile.data) : dimFile.data[j] = produced[i]

\* Two devices yielded records that differ only in radius and both records
\* were written.
C3_Witness ==
  /\ pc = "Done"
  /\ Len(produced) = 2
  /\ Complete(produced[1])
  /\ produced[1].radius # produced[2].radius
  /\ [produced[1] EXCEPT !.radius = produced[2].radius] = produced[2]
  /\ Len(dimFile.data) = 2

\* C4: no record with a missing orientation is in context.dimensions or in
\* the written dataset.
C4_NoIncompleteRecord ==
  \A all \in {dimensions, dimFile.data} :
    \A i \in 1..Len(all) : Complete(all[i])

\* C5: the step that ends a device's sub-sequence, with success or with a
\* failure, leaves DERIVED_DATA removed.
C5_ScratchRemovedAtDeviceEnd ==
  [][(pc \in DeviceSteps /\ (pc' \notin DeviceSteps \/ cur' # cur))
       => ~derivedData'.exists]_vars

RequirementUnmet ==
  ~host.macOS \/ ~host.xcodeApp \/ ~host.xcodebuild \/ ~host.xcparse

\* C6: on a host with an unmet requirement only "Verifying requirements"
\* ever runs: no device is discovered, no command is invoked and neither
\* artifact is written.
C6_PreflightAbortsBeforeWork ==
  RequirementUnmet =>
    /\ \A i \in 1..Len(log) : log[i] = <<"Verifying requirements", 0>>
    /\ pc \in {"Verifying requirements", "Rejected", "Aborted"}
    /\ devices = <<>>
    /\ commands = {}
    /\ dimFile = Previous
    /\ logFile = Previous

\* The run was aborted by the requirement check on a host without xcparse.
C6_Witness ==
  /\ pc = "Aborted"
  /\ ~host.xcparse /\ host.macOS /\ host.xcodeApp /\ host.xcodebuild
  /\ error.kind = "silent"

\* C7: once a stage before "Generating files" has failed, both artifacts
\* hold what they held before the run.
C7_FailedRunWritesNothing ==
  (error.kind # "none" /\ error.stage # "Generating files") =>
    (dimFile = Previous /\ logFile = Previous)

\* The run was aborted by a failed cleanup after a record was gathered.
C7_Witness ==
  /\ pc = "Aborted"
  /\ error.stage = "Cleaning up extraction cache"
  /\ Len(dimensions) = 1
  /\ dimFile = Previous

\* C8: a run ends with both artifacts written once each, or with neither
\* written, and both are written only when the run is Done.
C8_ArtifactsWrittenAsPair ==
  Ended =>
    /\ dimFile.writes = logFile.writes
    /\ dimFile.writes <= 1
    /\ dimFile.writes = 1 <=> pc = "Done"

\* C9: a run ended by a SilentError exits with a non-zero status and has
\* written neither artifact.
C9_PreflightExitsNonZero ==
  (pc = "Aborted" /\ error.kind = "silent") =>
    /\ exitStatus # Some(0)
    /\ dimFile = Previous
    /\ logFile = Previous

\* C10 as stated: when a device's sub-sequence failed, the sub-sequences of
\* the devices after it have been started by the end of the run.
C10_SiblingsProceed ==
  (Ended /\ error.device > 0) =>
    \A j \in (error.device + 1)..Len(devices) :
      \E k \in 1..Len(log) : log[k] = <<"Extracting dimensions", j>>

\* C10 as amended: when a device's sub-sequence failed, no task of a device
\* after it is ever started.
C10_FailureHaltsLaterDevices ==
  error.device > 0 =>
    \A k \in 1..Len(log) : log[k][2] <= error.device

\* The first of two devices failed and the run was aborted.
C10_Witness ==
  /\ pc = "Aborted"
  /\ Len(devices) = 2
  /\ error.device = 1

Range(seq) == {seq[i] : i \in 1..Len(seq)}

\* C11: on a run that reaches Done every discovered device has yielded a
\* record, and the written dataset holds exactly these records, each once.
C11_DatasetIsThisRunsRecords ==
  pc = "Done" =>
    /\ Len(produced) = Len(devices)
    /\ Range(dimFile.data) = Range(produced)
    /\ Cardinality(Range(dimFile.data)) = Len(dimFile.data)

\* Two devices yielded different records and the run wrote both.
C11_Witness ==
  /\ pc = "Done"
  /\ Len(devices) = 2
  /\ produced[1] # produced[2]
  /\ Range(dimFile.data) = {produced[1], produced[2]}

\* C12: when a given attachment file has an orientation that is neither
\* "portrait" nor "landscape" the parse step fails: no record is folded,
\* pushed or written.
C12_InvalidOrientationRejected ==
  (\E i \in 1..Len(files) :
     files[i].orientation \notin {"portrait", "landscape"}) =>
    (produced = <<>> /\ dimensions = <<>> /\ dimFile.data = <<>>)

\* C13: when the parse step of a device has folded a record that holds both
\* orientations, the bundle handed to xcparse was the one of this device's
\* build and the files read were two, both extracted from that bundle.
C13_RecordFromOwnAttachments ==
  (/\ pc = "Cleaning up extraction cache"
   /\ error.kind = "none"
   /\ Complete(produced[Len(produced)])) =>
    /\ output = Some(cur)
    /\ Len(derivedData.txt) = 2
    /\ \A i \in 1..Len(derivedData.txt) : derivedData.txt[i] = cur

StageOrder ==
  <<"Verifying requirements", "Gathering devices", "Gathering dimensions",
    "Sorting dimensions", "Generating files">>

IsStage(entry) == entry[1] \notin DeviceSteps

\* The top-level tasks started so far.
Stages == SelectSeq(log, IsStage)

\* C14: the top-level tasks started are a prefix of the fixed order, the
\* device tasks lie between "Gathering dimensions" and "Sorting dimensions",
\* a failed task is the last one started and the run is then rejected, and
\* Done is reached only with every stage run and both files written.
C14_StagesInOrder ==
  /\ Len(Stages) <= Len(StageOrder)
  /\ \A k \in 1..Len(Stages) : Stages[k] = <<StageOrder[k], 0>>
  /\ \A k \in 1..Len(log) :
       ~IsStage(log[k]) =>
         /\ \E i \in 1..(k - 1) : log[i][1] = "Gathering dimensions"
         /\ \A i \in 1..(k - 1) :
              log[i][1] \notin {"Sorting dimensions", "Generating files"}
  /\ error.kind # "none" =>
       /\ log[Len(log)][1] = error.stage
       /\ pc \in {"Rejected", "Aborted"}
  /\ pc = "Done" =>
       /\ error.kind = "none"
       /\ Len(Stages) = Len(StageOrder)
       /\ dimFile.writes = 1 /\ logFile.writes = 1

\* The run was aborted by a failure of getDevices, the second task.
C14_Witness ==
  /\ pc = "Aborted"
  /\ error.stage = "Gathering devices"
  /\ Len(log) = 2

\* C15: once a task of a device has failed, it is the last task started (no
\* later task of that device, no later device, no sorting and no writing)
\* and the run is rejected.
C15_DeviceFailureHaltsRun ==
  error.device > 0 =>
    /\ log[Len(log)] = <<error.stage, error.device>>
    /\ \A k \in 1..Len(log) :
         log[k][1] \notin {"Sorting dimensions", "Generating files"}
    /\ pc \in {"Rejected", "Aborted"}

\* The parse step of the first of two devices failed and the run was
\* aborted.
C15_Witness ==
  /\ pc = "Aborted"
  /\ error.stage = "Parsing extracted dimensions"
  /\ error.device = 1
  /\ Len(devices) = 2

Owners == Range(derivedData.bundles) \cup Range(derivedData.txt)

\* C16: every device task is started right after the task before it in the
\* order build, parse, clean up, device by device; the build of a device
\* after the first starts with DERIVED_DATA removed, and the directory never
\* holds a bundle or file of another device of this run.
C16_DevicesOneAtATime ==
  /\ \A k \in 1..Len(log) :
       LET title == log[k][1]
           device == log[k][2]
       IN /\ title = "Extracting dimensions" =>
               log[k - 1] = IF device = 1 THEN <<"Gathering dimensions", 0>>
                            ELSE <<"Cleaning up extraction cache", device - 1>>
          /\ title = "Parsing extracted dimensions" =>
               log[k - 1] = <<"Extracting dimensions", device>>
          /\ title = "Cleaning up extraction cache" =>
               log[k - 1] = <<"Parsing extracted dimensions", device>>
  /\ (pc = "Extracting dimensions" /\ cur > 1) => derivedData = Absent
  /\ Owners \subseteq {0, cur}

\* The second device is being measured after the first was cleaned up.
C16_Witness ==
  /\ pc = "Parsing extracted dimensions"
  /\ cur = 2
  /\ derivedData.bundles = <<2>>

Count(seq, x) == Cardinality({i \in 1..Len(seq) : seq[i] = x})

IsPermutationOf(a, b) ==
  /\ Len(a) = Len(b)
  /\ \A x \in Range(a) \cup Range(b) : Count(a, x) = Count(b, x)

Sorted == \E k \in 1..Len(log) : log[k][1] = "Sorting dimensions"

\* C17: once "Sorting dimensions" has run, context.dimensions is a
\* permutation of the accumulated sequence, in ascending order of
\* getHashCode, and a written dataset is this sequence.
C17_SortedByHash ==
  Sorted =>
    /\ IsPermutationOf(dimensions, Accumulate(produced))
    /\ \A k \in 1..(Len(dimensions) - 1) :
         getHashCode(dimensions[k]) <= getHashCode(dimensions[k + 1])
    /\ dimFile.writes > 0 => dimFile.data = dimensions

\* The sort exchanged two records and the run wrote them in hash order.
C17_Witness ==
  /\ pc = "Done"
  /\ Len(produced) = 2
  /\ getHashCode(produced[2]) < getHashCode(produced[1])
  /\ dimFile.data = <<produced[2], produced[1]>>

RECURSIVE FirstOccurrences(_)
\* The records in order, each kept where it occurs first.
FirstOccurrences(records) ==
  IF records = <<>> THEN <<>>
  ELSE LET front == SubSeq(records, 1, Len(records) - 1)
           last == records[Len(records)]
       IN IF last \in Range(front) THEN FirstOccurrences(front)
          ELSE Append(FirstOccurrences(front), last)

\* C18: from "Gathering dimensions" until the sort, context.dimensions is
\* the sequence of the first occurrences of the records yielded so far, in
\* the order the devices were processed (so each step leaves it unchanged
\* or appends the new record at its end).
C18_FirstSeenAppendOnly ==
  ((\E k \in 1..Len(log) : log[k][1] = "Gathering dimensions") /\ ~Sorted)
    => dimensions = FirstOccurrences(produced)

\* The second device yielded the record of the first and nothing was added.
C18_Witness ==
  /\ pc = "Cleaning up extraction cache"
  /\ cur = 2
  /\ produced[1] = produced[2]
  /\ dimensions = <<produced[1]>>

JustParsed ==
  Len(log) > 0 /\ log[Len(log)] = <<"Parsing extracted dimensions", cur>>

\* C19: after the parse step of a device, the bundle handed to xcparse is
\* the one this device's build produced whenever there is one, and with no
\* bundle at all the step has failed without a record for the device.
C19_NewestBundleExtracted ==
  JustParsed =>
    /\ cur \in Range(derivedData.bundles) => output = Some(cur)
    /\ derivedData.bundles = <<>> =>
         (error.kind # "none" /\ Len(produced) < cur)

ValidOrientations ==
  \A i \in 1..Len(files) : files[i].orientation \in {"portrait", "landscape"}

\* C20 as stated: the record folded from the given files is the one every
\* order of reading them yields (stated for files of a valid orientation).
C20_FoldOrderIndependent ==
  (Len(produced) = 1 /\ ValidOrientations) =>
    \A p \in Permutations(1..Len(files)) :
      FoldAttachments(Reordered(files, p)) = produced[1]

\* The files agree on device, scale and radius and no two of them go to
\* the same slot.
Agreeing ==
  \A i, j \in 1..Len(files) :
    /\ files[i].device = files[j].device
    /\ files[i].scale = files[j].scale
    /\ files[i].radius = files[j].radius
    /\ i # j =>
         (files[i].orientation = "portrait") # (files[j].orientation = "portrait")

\* C20 as amended: when the given files agree on device, scale and radius
\* and no two of them go to the same slot, the record folded from them is
\* the one every order of reading them yields.
C20_AgreeingFoldOrderIndependent ==
  (Len(produced) = 1 /\ Agreeing) =>
    \A p \in Permutations(1..Len(files)) :
      FoldAttachments(Reordered(files, p)) = produced[1]

\* A portrait and a landscape file that agree were folded into a record.
C20_Witness ==
  /\ Len(produced) = 1
  /\ Len(files) = 2
  /\ Agreeing
  /\ ValidOrientations
  /\ Complete(produced[1])

RequirementDiagnostics ==
  {"Xcode is only available on macOS.", "Xcode is required.",
   "Xcode Command Line Tools are required.", "xcparse is required."}

\* C21: console.error is called only by the handler of a rejected run, and
\* then exactly when the error is not a SilentError; the errors that are a
\* SilentError are the failures of "Verifying requirements", each carrying
\* one of the four diagnostics, so a run aborted by a later task is reported.
C21_ReportedIffNotSilent ==
  /\ reported => pc = "Aborted"
  /\ pc = "Aborted" => (reported <=> error.kind # "silent")
  /\ error.kind = "silent" <=>
       (error.kind # "none" /\ error.stage = "Verifying requirements")
  /\ error.kind = "silent" => error.message \in RequirementDiagnostics
  /\ (pc = "Aborted" /\ error.stage # "Verifying requirements") => reported

\* The run was aborted by a failure of xcodebuild and the error was
\* reported.
C21_Witness ==
  /\ pc = "Aborted"
  /\ error.stage = "Extracting dimensions"
  /\ error.kind = "error"
  /\ reported

\* The diagnostic of the branch that throws for a requirement.
Diagnostic(requirement) ==
  CASE requirement = "macOS" -> "Xcode is only available on macOS."
    [] requirement = "xcodeApp" -> "Xcode is required."
    [] requirement = "xcodebuild" -> "Xcode Command Line Tools are required."
    [] requirement = "xcparse" -> "xcparse is required."

\* C22: once the requirement check has run (it runs once), the requirements
\* it inspected are a prefix of the order macOS, Xcode app, xcodebuild,
\* xcparse, all met but possibly the last; with an unmet requirement the
\* last one inspected is the first unmet one and the run's one error is the
\* SilentError with its diagnostic, and with all four met all four were
\* inspected and the check raised no error.
C22_FirstUnmetDiagnosed ==
  pc # "Verifying requirements" =>
    /\ Count(log, <<"Verifying requirements", 0>>) = 1
    /\ Len(checked) \in 1..Len(RequirementOrder)
    /\ \A i \in 1..Len(checked) : checked[i] = RequirementOrder[i]
    /\ \A i \in 1..(Len(checked) - 1) : host[checked[i]]
    /\ IF RequirementUnmet
       THEN /\ ~host[checked[Len(checked)]]
            /\ error = [kind |-> "silent",
                        stage |-> "Verifying requirements",
                        device |-> 0,
                        message |-> Diagnostic(checked[Len(checked)])]
       ELSE /\ checked = RequirementOrder
            /\ error.stage # "Verifying requirements"

\* On a host with neither the Xcode app nor xcparse the check stopped at
\* the Xcode app and the run was aborted with its diagnostic.
C22_Witness ==
  /\ pc = "Aborted"
  /\ host.macOS /\ ~host.xcodeApp /\ host.xcodebuild /\ ~host.xcparse
  /\ checked = <<"macOS", "xcodeApp">>
  /\ error.message = "Xcode is required."

\* C23: every run ends, as Done or as Aborted, and stays as it ended; and
\* each task started is a new one, started after those before it, a device
\* task being the task of a device of the catalog: no stage and no device
\* task is started twice.
C23_EndsOnceEachTaskOnce ==
  /\ <>Ended
  /\ [][Ended => pc' = pc]_vars
  /\ [][log' # log =>
          /\ log' = Append(log, log'[Len(log')])
          /\ log'[Len(log')] \notin Range(log)
          /\ log'[Len(log')][2] \in 0..Len(devices)]_vars

\* A run over a full catalog is Done after every task of every device.
C23_Witness ==
  /\ pc = "Done"
  /\ Len(devices) = MaxDevices
  /\ Len(log) = Len(StageOrder) + 3 * MaxDevices

====
